---- MODULE Spec2Model ----
(***************************************************************************)
(* Model of gr::fhss_utils::cf_estimate_impl (lib/cf_estimate_impl.cc):    *)
(* the centre-frequency estimator block.  One PDU (metadata dictionary +   *)
(* complex burst) is analysed, a debug PSD record and a corrected burst    *)
(* record are published.                                                   *)
(*                                                                         *)
(* Numbers.  The C++ code computes in float/double.  Here every real       *)
(* number is an exact rational [n, d] (d > 0, lowest terms); the IEEE      *)
(* quiet NaN produced by 0.0/0.0 is the value [n |-> 0, d |-> 0], it       *)
(* propagates through arithmetic, and every ordered comparison with it is  *)
(* false, as in IEEE-754.  The inputs are small integers, which float      *)
(* represents exactly.  Values the code obtains through log10 or sqrt are  *)
(* kept symbolically (the argument is recorded).                           *)
(***************************************************************************)
EXTENDS Integers, Sequences, FiniteSets, TLC

(***************************************************************************)
(* Program constants                                                       *)
(***************************************************************************)
MAX_FFT_POWER == 8
MIN_FFT_POWER == 5
MIN_NFFTS == 4

\* enum cf_method
RMS == 0
HALF_POWER == 1
COERCE == 2

(***************************************************************************)
(* Bounds of the model                                                     *)
(***************************************************************************)
\* longest burst handed to the estimator (samples)
MaxBurstSize == 8
\* longest channel-frequency list a controller installs
MaxChannels == 2
\* longest burst of the FFT sizing specification
MaxSizingBurst == 2100

\* input values (Hz); all are integers that float represents exactly
CenterFrequencies == {100}
SampleRates == {8}
RelativeFrequencies == {0, 2}
NoiseDensities == {-3}
ChannelFreqs == {98, 102, 103}
\* amplitudes of the DC component and of the Nyquist component of a burst
Amplitudes == {0, 1}
\* what a read before the start of d_fft_mag2_gains may find (undefined
\* behaviour): two different values stand for the contents of the heap
JunkGains == {0, 7}
\* the methods a controller selects
Methods == {RMS, HALF_POWER, COERCE}

(***************************************************************************)
(* Exact rational arithmetic with NaN                                      *)
(***************************************************************************)
RECURSIVE Gcd(_, _)
Gcd(a, b) == IF b = 0 THEN a ELSE Gcd(b, a % b)

Abs(x) == IF x < 0 THEN -x ELSE x

NaN == [n |-> 0, d |-> 0]
IsNaN(x) == x.d = 0

\* the rational num/den in lowest terms; 0/0 is NaN
Rat(num, den) ==
    IF den = 0 THEN NaN
    ELSE LET s == IF den < 0 THEN -1 ELSE 1
             g == Gcd(Abs(num), Abs(den))
         IN  [n |-> (s * num) \div g, d |-> (s * den) \div g]

R(i) == [n |-> i, d |-> 1]
Zero == R(0)
Half == Rat(1, 2)

RatAdd(x, y) == IF IsNaN(x) \/ IsNaN(y) THEN NaN
                ELSE Rat(x.n * y.d + y.n * x.d, x.d * y.d)
RatNeg(x) == IF IsNaN(x) THEN NaN ELSE [n |-> -x.n, d |-> x.d]
RatSub(x, y) == RatAdd(x, RatNeg(y))
RatMul(x, y) == IF IsNaN(x) \/ IsNaN(y) THEN NaN
                ELSE Rat(x.n * y.n, x.d * y.d)
\* IEEE division: 0/0 is NaN (a non-zero numerator over 0 does not occur)
RatDiv(x, y) == IF IsNaN(x) \/ IsNaN(y) THEN NaN
                ELSE Rat(x.n * y.d, x.d * y.n)
RatAbs(x) == IF IsNaN(x) THEN NaN ELSE [n |-> Abs(x.n), d |-> x.d]
\* ordered comparisons are false when an operand is NaN
RatLt(x, y) == ~IsNaN(x) /\ ~IsNaN(y) /\ x.n * y.d < y.n * x.d
RatLe(x, y) == ~IsNaN(x) /\ ~IsNaN(y) /\ x.n * y.d <= y.n * x.d
\* C++ operator != : true when an operand is NaN
RatNe(x, y) == IsNaN(x) \/ IsNaN(y) \/ x # y
\* the fractional part, in [0, 1): an angle in cycles
RatFrac(x) == IF IsNaN(x) THEN NaN ELSE Rat(x.n % x.d, x.d)

RECURSIVE RatSum(_)
RatSum(s) == IF s = <<>> THEN Zero ELSE RatAdd(Head(s), RatSum(Tail(s)))

(***************************************************************************)
(* State                                                                   *)
(***************************************************************************)
VARIABLES
    d_method,           \* int: the estimation method
    d_channel_freqs,    \* std::vector<float>: the coercion list
    d_ffts,             \* the FFT engines, one per power: their sizes
    d_windows,          \* the analysis windows, one per power
    d_fft_mag2_gains,   \* the magnitude-squared gain of each window
    d_rotate,           \* blocks::rotator: [phase, phase_incr], angles in cycles
    d_corrected_burst,  \* std::vector<gr_complex>: the corrected burst buffer
    pc,                 \* position of the message handler thread
    msg,                \* the PDU the handler was last called with
    locals,             \* the locals of the handler's last (or current) call
    published,          \* what that call published, in order: <<port, record>>
    crashed,            \* the process died on an out-of-range access
    size_of_inf         \* what the build's conversion of +inf or NaN to size_t yields

vars == <<d_method, d_channel_freqs, d_ffts, d_windows, d_fft_mag2_gains,
          d_rotate, d_corrected_burst, pc, msg, locals, published, crashed,
          size_of_inf>>

\* the members of the block and the build it runs on
Members ==
    [d_method |-> d_method, d_channel_freqs |-> d_channel_freqs,
     d_ffts |-> d_ffts, d_windows |-> d_windows,
     d_fft_mag2_gains |-> d_fft_mag2_gains, d_rotate |-> d_rotate,
     d_corrected_burst |-> d_corrected_burst, size_of_inf |-> size_of_inf]

(***************************************************************************)
(* Containers                                                              *)
(***************************************************************************)
Pow2(k) == 2 ^ k

\* pmt::dict_add: a new dictionary with key k bound to v
dict_add(dict, k, v) ==
    [x \in (DOMAIN dict) \cup {k} |-> IF x = k THEN v ELSE dict[x]]
dict_has_key(dict, k) == k \in DOMAIN dict
\* pmt::dict_ref with a default
dict_ref(dict, k, default) == IF k \in DOMAIN dict THEN dict[k] ELSE default

\* std::vector::resize: truncate, or append value-initialized elements
ZeroSample == [mag |-> Zero, rot |-> Zero]
Resize(v, n) == [i \in 1..n |-> IF i <= Len(v) THEN v[i] ELSE ZeroSample]

\* an index of a std::vector is in range
InRange(i, v) == 0 <= i /\ i < Len(v)

\* 4-byte int; the conversion of -inf to int yields INT_MIN on the targets
IntMin == -2147483647 - 1
\* outcomes of converting +inf or NaN to size_t (undefined behaviour; the build
\* decides): 0, or a count so large that the loop it bounds cannot finish
HugeCount == 2147483647
SizeOfInfOutcomes == {0, HugeCount}
\* a read of a std::vector element: the process dies, or a value is read
Crash == [crash |-> TRUE, value |-> 0]
Read(v) == [crash |-> FALSE, value |-> v]

(***************************************************************************)
(* fft_setup: the FFT bank                                                 *)
(***************************************************************************)
\* the Gaussian window of one FFT size: exp(-x^2 / two_sigma_squared),
\* x = (-fftsize + 1)/2 + j.  The weights are kept by their parameters.
GaussianWindow(fftsize) ==
    LET s == Rat(fftsize, 32)
    IN  [fftsize |-> fftsize,
         two_sigma_squared |-> RatMul(s, RatMul(R(2), s))]

\* fftsize * fftsize * gain_rms * gain_rms, gain_rms the window's rms weight
Mag2Gain(fftsize) == [fftsize2 |-> fftsize * fftsize, gain_rms_of |-> fftsize]

RECURSIVE fft_setup(_, _)
\* bank is <<ffts, windows, gains>>; create every power from the current
\* size of the bank up to power
fft_setup(bank, power) ==
    LET i == Len(bank[1])
    IN  IF i > power THEN bank
        ELSE fft_setup(<<Append(bank[1], Pow2(i)),
                         Append(bank[2], GaussianWindow(Pow2(i))),
                         Append(bank[3], Mag2Gain(Pow2(i)))>>, power)

(***************************************************************************)
(* FFT sizing (pdu_handler, "frequency analysis & PSD estimate")           *)
(***************************************************************************)
RECURSIVE FloorLog2(_)
\* floor(log2(n)) for an integer n >= 1
FloorLog2(n) == IF n < 2 THEN 0 ELSE 1 + FloorLog2(n \div 2)

\* int fftpower = std::floor(log2(burst_size * 1.0 / MIN_NFFTS)), then the
\* upper clamp.  log2(N/4) = log2(N) - 2; log2(0) = -inf converts to INT_MIN
FftPower(burst_size) ==
    LET raw == IF burst_size = 0 THEN IntMin
               ELSE FloorLog2(burst_size) - FloorLog2(MIN_NFFTS)
    IN  IF raw > MAX_FFT_POWER THEN MAX_FFT_POWER ELSE raw

\* size_t fftsize = pow(2, fftpower): a negative power truncates to 0
FftSize(fftpower) == IF fftpower < 0 THEN 0 ELSE Pow2(fftpower)

\* fftpower, fftsize, nffts, copy_size and offset of a burst; inf_count is
\* what the conversion of +inf or NaN to size_t yields (nffts when
\* fftsize = 0: floor(N / 0))
Sizing(burst_size, inf_count) ==
    LET fftpower == FftPower(burst_size)
        fftsize == FftSize(fftpower)
        nffts == IF fftsize = 0 THEN inf_count ELSE burst_size \div fftsize
    IN  [burst_size |-> burst_size,
         fftpower |-> fftpower,
         fftsize |-> fftsize,
         nffts |-> nffts,
         copy_size |-> IF fftsize = 0 THEN 0 ELSE nffts * fftsize,
         offset |-> IF fftsize = 0 THEN burst_size \div 2
                    ELSE (burst_size - nffts * fftsize) \div 2]

\* the "BURST FOR ANTS" warning
TooSmall(burst_size) == burst_size < Pow2(MIN_FFT_POWER) * MIN_NFFTS

(***************************************************************************)
(* PSD estimate (pdu_handler, the FFT loop, normalisation and fft shift)   *)
(***************************************************************************)
\* the samples memcpy'd into the FFT input buffer for segment ii
Segment(data, offset, ii, fftsize) ==
    [j \in 1..fftsize |-> data[offset + ii * fftsize + j]]

\* every sample index the memcpy of segment ii reads is inside the burst
SegmentInRange(data, offset, ii, fftsize) ==
    offset + ii * fftsize + fftsize <= Len(data)

RECURSIVE AltSum(_, _)
\* seg[1] - seg[2] + seg[3] - ... : the DFT bin at the Nyquist frequency
AltSum(seg, sign) ==
    IF seg = <<>> THEN 0 ELSE sign * Head(seg) + AltSum(Tail(seg), -sign)

RECURSIVE Sum(_)
Sum(seg) == IF seg = <<>> THEN 0 ELSE Head(seg) + Sum(Tail(seg))

\* window, forward FFT and magnitude squared of one segment of real
\* samples.  For fftsize 1 and 2 the Gaussian window has equal weights w
\* (x = 0, or x = -1/2 and +1/2), so the result is the plain DFT in units
\* of w^2; the bursts of the model are sums of a DC and a Nyquist
\* component, whose other bins are 0.
FftMag2(seg) ==
    LET fftsize == Len(seg)
    IN  [k \in 1..fftsize |->
            IF k = 1 THEN Sum(seg) * Sum(seg)
            ELSE IF k = fftsize \div 2 + 1 THEN AltSum(seg, 1) * AltSum(seg, 1)
            ELSE 0]

RECURSIVE Accumulate(_, _, _, _)
\* mags2 after the segments ii .. nffts-1 have been added to acc
Accumulate(data, sz, ii, acc) ==
    IF ii >= sz.nffts THEN acc
    ELSE LET fftm2 == FftMag2(Segment(data, sz.offset, ii, sz.fftsize))
         IN  Accumulate(data, sz, ii + 1,
                        [k \in 1..sz.fftsize |-> acc[k] + fftm2[k]])

\* std::rotate(first, first + mid, last): a left rotation by mid
RotateLeft(v, mid) ==
    [i \in 1..Len(v) |-> v[((i - 1 + mid) % Len(v)) + 1]]

\* the accumulated bins times 1.0 / nffts, then the fft shift
Psd(data, sz) ==
    IF sz.fftsize = 0 THEN <<>>
    ELSE LET acc == Accumulate(data, sz, 0, [k \in 1..sz.fftsize |-> 0])
             avg == [k \in 1..sz.fftsize |-> Rat(acc[k], sz.nffts)]
         IN  RotateLeft(avg, sz.fftsize \div 2)

\* the frequency axis, centred at center_frequency, in Hz
FreqAxis(center_frequency, sample_rate, fftsize) ==
    LET step_size == RatDiv(sample_rate, R(fftsize))
        start == RatSub(center_frequency, RatDiv(sample_rate, R(2)))
    IN  [i \in 1..fftsize |-> RatAdd(start, RatMul(step_size, R(i - 1)))]

(***************************************************************************)
(* Centre frequency estimation methods                                     *)
(***************************************************************************)
RECURSIVE HalfPowerScan(_, _, _, _, _)
\* for (i = 0; running_total < half_power; i++) { running_total += mags2[i];
\* half_power_idx = i; }  -- the loop has no bound on i
HalfPowerScan(mags2, half, i, running_total, idx) ==
    IF ~RatLt(running_total, half) THEN [idx |-> idx, in_range |-> TRUE]
    ELSE IF i >= Len(mags2) THEN [idx |-> idx, in_range |-> FALSE]
    ELSE HalfPowerScan(mags2, half, i + 1,
                       RatAdd(running_total, mags2[i + 1]), i)

HalfPowerIndex(mags2) ==
    HalfPowerScan(mags2, RatDiv(RatSum(mags2), R(2)), 0, Zero, 0)

half_power(mags2) ==
    RatSub(Rat(HalfPowerIndex(mags2).idx, Len(mags2)), Half)

\* sum of freq_axis[i] * mags2[i]
TopIntegral(mags2, freq_axis) ==
    RatSum([i \in 1..Len(mags2) |-> RatMul(freq_axis[i], mags2[i])])

rms(mags2, freq_axis, center_frequency, sample_rate) ==
    LET energy == RatSum(mags2)
        top_integral == TopIntegral(mags2, freq_axis)
    IN  RatDiv(RatSub(RatDiv(top_integral, energy), center_frequency),
               sample_rate)

RECURSIVE Nearest(_, _, _, _, _)
\* the loop of coerce_frequency from index i on
Nearest(channel_freqs, center_frequency, i, dist, channel_freq) ==
    IF i > Len(channel_freqs) THEN channel_freq
    ELSE LET temp_dist == RatAbs(RatSub(channel_freqs[i], center_frequency))
         IN  IF RatLt(temp_dist, dist)
             THEN Nearest(channel_freqs, center_frequency, i + 1,
                          temp_dist, channel_freqs[i])
             ELSE Nearest(channel_freqs, center_frequency, i + 1,
                          dist, channel_freq)

\* coerce_frequency after its emptiness test: first is the value read as
\* d_channel_freqs[0]
NearestFrom(first, channel_freqs, center_frequency, sample_rate) ==
    LET c == Nearest(channel_freqs, center_frequency, 2,
                     RatAbs(RatSub(first, center_frequency)), first)
    IN  RatDiv(RatSub(c, center_frequency), sample_rate)

\* the coercion without the search: always the first channel
CoerceToFirstChannel(channel_freqs, center_frequency, sample_rate) ==
    IF Len(channel_freqs) = 0 THEN Zero
    ELSE RatDiv(RatSub(channel_freqs[1], center_frequency), sample_rate)

coerce_frequency(channel_freqs, center_frequency, sample_rate) ==
    IF Len(channel_freqs) = 0 THEN Zero
    ELSE NearestFrom(channel_freqs[1], channel_freqs, center_frequency,
                     sample_rate)

(***************************************************************************)
(* Bandwidth and power estimation                                          *)
(***************************************************************************)
\* std::sqrt(x), kept by its argument
Sqrt(x) == [sqrt_of |-> x]
\* 10 * log10(x / gain), kept by its arguments
Db(x, gain) == [db_of |-> x, over |-> gain]

rms_bw(mags2, freq_axis, center_frequency) ==
    LET energy == RatSum(mags2)
        top_integral ==
            RatSum([i \in 1..Len(mags2) |->
                LET df == RatSub(freq_axis[i], center_frequency)
                IN  RatMul(RatMul(df, df), mags2[i])])
    IN  Sqrt(RatDiv(top_integral, energy))

\* x < sqrt(q) / 2, for the rational q >= 0 (false when q or x is NaN)
LtHalfSqrt(x, q) ==
    /\ ~IsNaN(x) /\ ~IsNaN(q)
    /\ \/ x.n < 0
       \/ RatLt(RatMul(x, x), RatDiv(q, R(4)))

estimate_pwr(mags2, freq_axis, center_frequency, bandwidth, fft_mag2_gain) ==
    LET inband(i) ==
            \* freq_axis[i] > start_freq /\ freq_axis[i] < stop_freq
            /\ LtHalfSqrt(RatSub(center_frequency, freq_axis[i]),
                          bandwidth.sqrt_of)
            /\ LtHalfSqrt(RatSub(freq_axis[i], center_frequency),
                          bandwidth.sqrt_of)
        signal_power ==
            RatSum([i \in 1..Len(mags2) |->
                       IF inband(i) THEN mags2[i] ELSE Zero])
    IN  Db(signal_power, fft_mag2_gain)

(***************************************************************************)
(* PDUs                                                                    *)
(***************************************************************************)
\* an optional value: <<>> when absent, <<v>> when present
Absent == <<>>
Optional(values) == {Absent} \cup {<<v>> : v \in values}
Present(values) == {<<v>> : v \in values}

\* a metadata dictionary: the keys whose value is present
Metadata(cf, sr, rf, nd) ==
    LET all == [center_frequency |-> cf, sample_rate |-> sr,
                relative_frequency |-> rf, noise_density |-> nd]
    IN  [k \in {x \in DOMAIN all : all[x] # Absent} |-> R(all[k][1])]

CompleteMetadatas ==
    {Metadata(cf, sr, rf, nd) :
        cf \in Present(CenterFrequencies), sr \in Present(SampleRates),
        rf \in Optional(RelativeFrequencies),
        nd \in Optional(NoiseDensities)}

IncompleteMetadatas ==
    {Metadata(cf, sr, Absent, Absent) :
        cf \in Optional(CenterFrequencies),
        sr \in Optional(SampleRates)} \ CompleteMetadatas

\* a burst of n real samples: a DC component plus a Nyquist component
Burst(n, dc, nyq) ==
    [i \in 1..n |-> dc + (IF i % 2 = 1 THEN nyq ELSE -nyq)]

Bursts == {Burst(n, dc, nyq) :
              n \in 0..MaxBurstSize, dc \in Amplitudes, nyq \in Amplitudes}

Pdu(shape, metadata, data) ==
    [shape |-> shape, metadata |-> metadata, data |-> data]

\* the metadata with the required keys only
PlainMetadatas ==
    {Metadata(cf, sr, Absent, Absent) :
        cf \in Present(CenterFrequencies), sr \in Present(SampleRates)}

\* the bursts on which the optional metadata keys are varied: one too short
\* for any FFT, one of the longest
ReferenceBursts == {Burst(1, 1, 0), Burst(MaxBurstSize, 1, 1)}

\* the PDUs handed to the handler: every burst under the plain metadata,
\* every metadata on the reference bursts, and the PDUs that are dropped
Pdus ==
    {Pdu("pair", m, b) : m \in PlainMetadatas, b \in Bursts}
    \cup {Pdu("pair", m, b) : m \in CompleteMetadatas, b \in ReferenceBursts}
    \cup {Pdu("pair", m, Burst(MIN_NFFTS, 1, 0)) : m \in IncompleteMetadatas}
    \cup {Pdu(shape, Metadata(Absent, Absent, Absent, Absent), <<>>) :
             shape \in {"not_pair", "not_c32vector", "not_dict"}}

is_pair(pdu) == pdu.shape # "not_pair"
is_c32vector(pdu) == pdu.shape # "not_c32vector"
is_dict(pdu) == pdu.shape # "not_dict"

\* the checks without the test for the sample_rate key
AcceptedWithoutSampleRateTest(pdu) ==
    /\ is_pair(pdu)
    /\ is_c32vector(pdu)
    /\ is_dict(pdu)
    /\ dict_has_key(pdu.metadata, "center_frequency")

\* the "basic checks" of pdu_handler: the PDU is analysed, not dropped
Accepted(pdu) ==
    /\ is_pair(pdu)
    /\ is_c32vector(pdu)
    /\ is_dict(pdu)
    /\ dict_has_key(pdu.metadata, "center_frequency")
    /\ dict_has_key(pdu.metadata, "sample_rate")

\* the channel lists a controller installs: up to MaxChannels channels,
\* no channel listed twice
ChannelLists ==
    {l \in UNION {[1..n -> {R(f) : f \in ChannelFreqs}] :
                     n \in 0..MaxChannels} :
        \A i, j \in 1..Len(l) : i # j => l[i] # l[j]}

(***************************************************************************)
(* pdu_handler, in the stages between which it reads the configuration     *)
(***************************************************************************)
\* the handler's locals before a call
NoLocals ==
    [dropped |-> FALSE, index_ok |-> TRUE,
     center_frequency |-> Zero, relative_frequency |-> Zero,
     sample_rate |-> Zero, noise_density_db |-> NaN,
     sz |-> [burst_size |-> 0, fftpower |-> 0, fftsize |-> 0, nffts |-> 0,
             copy_size |-> 0, offset |-> 0],
     mags2 |-> <<>>, freq_axis |-> <<>>, bandwidth |-> Sqrt(NaN),
     start_method |-> COERCE, start_freqs |-> <<>>,
     method |-> COERCE, freqs |-> <<>>,
     shift_primary |-> Zero, shift_coerce |-> Zero, shift |-> Zero,
     out_center_frequency |-> Zero]

\* every FFT-bank index and burst index of the FFT loop is in range
LoopInRange(data, sz, ffts, windows) ==
    sz.nffts > 0 =>
        /\ InRange(sz.fftpower, ffts)
        /\ InRange(sz.fftpower, windows)
        /\ sz.nffts # HugeCount
        /\ \A ii \in 0..(sz.nffts - 1) :
               SegmentInRange(data, sz.offset, ii, sz.fftsize)

\* the dB spectrum published on "debug"
DebugRecord(metadata, mags2, gain, noise_density_db, sample_rate, fftsize) ==
    LET nf == [noise_density_db |-> noise_density_db,
               bin_width |-> RatDiv(sample_rate, R(fftsize))]
    IN  [metadata |-> metadata,
         data |-> [i \in 1..fftsize |-> [re |-> Db(mags2[i], gain), im |-> nf]]]

\* metadata extraction up to the debug publication: [h, published, crashed]
Analyse(pdu, m) ==
    LET md == pdu.metadata
        cf == dict_ref(md, "center_frequency", NaN)
        rf == dict_ref(md, "relative_frequency", Zero)
        sr == dict_ref(md, "sample_rate", NaN)
        nd == dict_ref(md, "noise_density", NaN)
        sz == Sizing(Len(pdu.data), m.size_of_inf)
        mags2 == Psd(pdu.data, sz)
        freq_axis == FreqAxis(cf, sr, sz.fftsize)
        bandwidth == rms_bw(mags2, freq_axis, cf)
        ok == /\ LoopInRange(pdu.data, sz, m.d_ffts, m.d_windows)
              /\ sz.fftsize > 0 => InRange(sz.fftpower, m.d_fft_mag2_gains)
        base == [NoLocals EXCEPT
                    !.center_frequency = cf,
                    !.relative_frequency = rf,
                    !.sample_rate = sr,
                    !.noise_density_db = nd,
                    !.sz = sz,
                    !.start_method = m.d_method,
                    !.start_freqs = m.d_channel_freqs,
                    !.index_ok = ok]
    IN  IF ~ok
        THEN [h |-> base, published |-> <<>>, crashed |-> TRUE]
        ELSE [h |-> [base EXCEPT !.mags2 = mags2,
                                 !.freq_axis = freq_axis,
                                 !.bandwidth = bandwidth],
              published |->
                  <<<<"debug",
                      DebugRecord(md, mags2,
                          IF sz.fftsize > 0
                          THEN m.d_fft_mag2_gains[sz.fftpower + 1] ELSE 0,
                          nd, sr, sz.fftsize)>>>>,
              crashed |-> FALSE]

\* "center frequency estimation": at_rms is the value of d_method read by
\* the test d_method == RMS, at_half_power the value read by the test
\* d_method == HALF_POWER
PrimaryShift(at_rms, at_half_power, mags2, freq_axis, cf, sample_rate) ==
    IF at_rms = RMS
    THEN rms(mags2, freq_axis, cf, sample_rate)
    ELSE IF at_half_power = HALF_POWER THEN half_power(mags2)
    ELSE Zero

\* every index the primary method reads is in range
PrimaryInRange(at_rms, at_half_power, mags2) ==
    (at_rms # RMS /\ at_half_power = HALF_POWER) =>
        HalfPowerIndex(mags2).in_range

\* a default-constructed rotator (also what is left of the members once
\* the process has died)
NoRotation == [phase |-> Zero, phase_incr |-> Zero]

\* gr_complex sample in[i] times the rotator phase: magnitude and angle
Rotated(sample, phase) ==
    IF IsNaN(phase) THEN [mag |-> NaN, rot |-> NaN]
    ELSE IF sample = 0 THEN ZeroSample
    ELSE [mag |-> R(sample), rot |-> phase]

\* rotator::rotateN(out, in, n): out[i] = in[i] * phase; phase *= phase_incr.
\* Yields the buffer and the rotator afterwards.
rotateN(buf, data, n, rotator) ==
    LET phase_at(i) ==
            RatFrac(RatAdd(rotator.phase, RatMul(R(i), rotator.phase_incr)))
    IN  [buf |-> [i \in 1..Len(buf) |->
                     IF i <= n THEN Rotated(data[i], phase_at(i - 1))
                     ELSE buf[i]],
         rotator |-> [rotator EXCEPT !.phase = phase_at(n)]]

\* exp(gr_complex(0, -shift * 2 * M_PI)) as an angle in cycles
PhaseIncr(shift) == RatFrac(RatNeg(shift))

\* rotator::set_phase(gr_complex(1, 0))
ResetPhase(rotator) == [rotator EXCEPT !.phase = Zero]

\* "correct the burst using the new center frequency"
CorrectBurst(rotator, buf, data, shift) ==
    LET r1 == ResetPhase([rotator EXCEPT !.phase_incr = PhaseIncr(shift)])
    IN  rotateN(Resize(buf, Len(data)), data, Len(data), r1)

\* if (relative_frequency != 0) relative_frequency += cf_correction_hz
CorrectedRelative(relative_frequency, cf_correction_hz) ==
    IF RatNe(relative_frequency, Zero)
    THEN RatAdd(relative_frequency, cf_correction_hz)
    ELSE relative_frequency

\* the test guarding the power and SNR estimate: noise_density_db != NAN
HasNoiseDensity(noise_density_db) == RatNe(noise_density_db, NaN)

\* the metadata of the output PDU, given the gain read from the bank
OutMetadata(md, h, shift, gain) ==
    LET cf_correction_hz == RatMul(shift, h.sample_rate)
        center_frequency == RatAdd(h.center_frequency, cf_correction_hz)
        relative_frequency ==
            CorrectedRelative(h.relative_frequency, cf_correction_hz)
        md1 == dict_add(md, "center_frequency", center_frequency)
        md2 == IF RatNe(relative_frequency, Zero)
               THEN dict_add(md1, "relative_frequency", relative_frequency)
               ELSE md1
        md3 == dict_add(md2, "bandwidth", h.bandwidth)
    IN  IF HasNoiseDensity(h.noise_density_db)
        THEN LET pwr_db == estimate_pwr(h.mags2, h.freq_axis,
                                        center_frequency, h.bandwidth, gain)
                 snr_db == [pwr_db |-> pwr_db,
                            noise_density_db |-> h.noise_density_db,
                            bandwidth |-> h.bandwidth]
             IN  dict_add(dict_add(md3, "pwr_db", pwr_db), "snr_db", snr_db)
        ELSE md3

\* the values the read d_fft_mag2_gains[fftpower] can yield
GainReads(fftpower, gains) ==
    IF InRange(fftpower, gains) THEN {Read(gains[fftpower + 1])}
    ELSE {Crash} \cup {Read(Mag2Gain(j)) : j \in JunkGains}

\* from the burst correction to the publication on "out": the outcomes,
\* each [h, published, rotator, buf, crashed]
Finish(pdu, h, debug, rotator, buf, gains) ==
    LET shift == RatAdd(h.shift_primary, h.shift_coerce)
        corrected == CorrectBurst(rotator, buf, pdu.data, shift)
        reads_gain == HasNoiseDensity(h.noise_density_db)
        h1(ok) == [h EXCEPT !.shift = shift,
                            !.index_ok = h.index_ok /\ ok,
                            !.out_center_frequency =
                                RatAdd(h.center_frequency,
                                       RatMul(shift, h.sample_rate))]
        outcome(read) ==
            IF read.crash
            THEN [h |-> h1(FALSE), published |-> debug,
                  rotator |-> NoRotation, buf |-> <<>>,
                  crashed |-> TRUE]
            ELSE [h |-> h1(~reads_gain \/ InRange(h.sz.fftpower, gains)),
                  published |->
                      Append(debug,
                          <<"out",
                            [metadata |->
                                 OutMetadata(pdu.metadata, h, shift, read.value),
                             data |-> SubSeq(corrected.buf, 1,
                                             Len(pdu.data))]>>),
                  rotator |-> corrected.rotator, buf |-> corrected.buf,
                  crashed |-> FALSE]
    IN  {outcome(g) : g \in IF reads_gain
                             THEN GainReads(h.sz.fftpower, gains)
                             ELSE {Read(0)}}

(***************************************************************************)
(* Construction                                                            *)
(***************************************************************************)
NoPdu == Pdu("none", Metadata(Absent, Absent, Absent, Absent), <<>>)

\* cf_estimate_impl::cf_estimate_impl(method, channel_freqs)
Init ==
    /\ d_method \in Methods
    /\ d_channel_freqs \in ChannelLists
    /\ LET bank == fft_setup(<<<<>>, <<>>, <<>>>>, MAX_FFT_POWER)
       IN  /\ d_ffts = bank[1]
           /\ d_windows = bank[2]
           /\ d_fft_mag2_gains = bank[3]
    /\ d_rotate = NoRotation
    /\ d_corrected_burst = <<>>
    /\ pc = "idle"
    /\ msg = NoPdu
    /\ locals = NoLocals
    /\ published = <<>>
    /\ crashed = FALSE
    /\ size_of_inf \in SizeOfInfOutcomes

(***************************************************************************)
(* The message handler, run by the block's thread: a PDU is handled        *)
(* completely before the next one is taken from the queue                  *)
(***************************************************************************)
\* the offsets of a burst, the method being read as at_rms and
\* at_half_power and the channel list as freqs
Estimate(h, at_rms, at_half_power, freqs) ==
    LET shift_primary ==
            PrimaryShift(at_rms, at_half_power, h.mags2, h.freq_axis,
                         h.center_frequency, h.sample_rate)
        estimate == RatAdd(h.center_frequency,
                           RatMul(shift_primary, h.sample_rate))
    IN  [h EXCEPT
            !.method = at_rms,
            !.freqs = freqs,
            !.index_ok = h.index_ok
                         /\ PrimaryInRange(at_rms, at_half_power, h.mags2),
            !.shift_primary = shift_primary,
            !.shift_coerce = coerce_frequency(freqs, estimate, h.sample_rate)]

\* what the process is left with when it dies
Dead(h, debug) ==
    [h |-> h, published |-> debug, rotator |-> NoRotation, buf |-> <<>>,
     crashed |-> TRUE]

\* pdu_handler(pdu) on the members m: the possible outcomes, each
\* [h, published, rotator, buf, crashed]
HandlerOutcomes(pdu, m) ==
    IF ~Accepted(pdu)
    THEN \* the early returns
         {[h |-> [NoLocals EXCEPT !.dropped = TRUE], published |-> <<>>,
           rotator |-> m.d_rotate, buf |-> m.d_corrected_burst,
           crashed |-> FALSE]}
    ELSE LET a == Analyse(pdu, m)
         IN  IF a.crashed THEN {Dead(a.h, a.published)}
             ELSE Finish(pdu,
                         Estimate(a.h, m.d_method, m.d_method,
                                  m.d_channel_freqs),
                         a.published, m.d_rotate, m.d_corrected_burst,
                         m.d_fft_mag2_gains)

pdu_handler ==
    /\ pc = "idle"
    /\ ~crashed
    /\ \E pdu \in Pdus :
          /\ msg' = pdu
          /\ \E o \in HandlerOutcomes(pdu, Members) :
                /\ locals' = o.h
                /\ published' = o.published
                /\ d_rotate' = o.rotator
                /\ d_corrected_burst' = o.buf
                /\ crashed' = o.crashed
    /\ pc' = "returned"
    /\ UNCHANGED <<d_method, d_channel_freqs, d_ffts, d_windows,
                   d_fft_mag2_gains, size_of_inf>>

\* the handler has returned: its locals are gone, the published messages
\* have left the block, and the thread waits for the next message
NextMessage ==
    /\ pc = "returned"
    /\ ~crashed
    /\ pc' = "idle"
    /\ msg' = NoPdu
    /\ locals' = NoLocals
    /\ published' = <<>>
    /\ UNCHANGED <<d_method, d_channel_freqs, d_ffts, d_windows,
                   d_fft_mag2_gains, d_rotate, d_corrected_burst, crashed,
                   size_of_inf>>

\* the estimator as constructed, handling one PDU after another
Next == pdu_handler \/ NextMessage

Spec == Init /\ [][Next]_vars

(***************************************************************************)
(* The choice of the FFT size alone, for every burst length up to          *)
(* MaxSizingBurst                                                          *)
(***************************************************************************)
InitSizing ==
    /\ d_method = RMS
    /\ d_channel_freqs = <<>>
    /\ LET bank == fft_setup(<<<<>>, <<>>, <<>>>>, MAX_FFT_POWER)
       IN  /\ d_ffts = bank[1]
           /\ d_windows = bank[2]
           /\ d_fft_mag2_gains = bank[3]
    /\ d_rotate = NoRotation
    /\ d_corrected_burst = <<>>
    /\ pc = "sizing"
    /\ msg = NoPdu
    /\ \E burst_size \in 0..MaxSizingBurst :
          locals = [NoLocals EXCEPT !.sz.burst_size = burst_size]
    /\ published = <<>>
    /\ crashed = FALSE
    /\ size_of_inf \in SizeOfInfOutcomes

\* "compute the all of the FFTs", up to the offset into the burst
ChooseFftSize ==
    /\ pc = "sizing"
    /\ locals' = [locals EXCEPT
                     !.sz = Sizing(locals.sz.burst_size, size_of_inf)]
    /\ pc' = "sized"
    /\ UNCHANGED <<d_method, d_channel_freqs, d_ffts, d_windows,
                   d_fft_mag2_gains, d_rotate, d_corrected_burst, msg,
                   published, crashed, size_of_inf>>

NextSizing == ChooseFftSize

SpecSizing == InitSizing /\ [][NextSizing]_vars

(***************************************************************************)
(* The handler statement by statement, with a controller thread calling    *)
(* set_method and set_freqs at any moment; pc is the statement the block's *)
(* thread executes next                                                    *)
(***************************************************************************)
\* the PDUs handled while the controller is active
ControlledPdus ==
    {Pdu("pair", m, b) :
        m \in PlainMetadatas,
        b \in {Burst(MaxBurstSize, 1, 1)}}
    \cup {Pdu("not_pair", Metadata(Absent, Absent, Absent, Absent), <<>>)}

\* the channel lists the controller installs meanwhile
ControlledFreqs == {98, 103}
ControlledLists ==
    {l \in ChannelLists :
        \A i \in 1..Len(l) : l[i] \in {R(f) : f \in ControlledFreqs}}

\* the estimator as constructed with one of these lists
InitConc == Init /\ d_channel_freqs \in ControlledLists

\* pdu_handler from its entry to the publication on "debug"
Receive ==
    /\ pc = "idle"
    /\ ~crashed
    /\ \E pdu \in ControlledPdus :
          /\ msg' = pdu
          /\ IF ~Accepted(pdu)
             THEN /\ locals' = [NoLocals EXCEPT !.dropped = TRUE]
                  /\ published' = <<>>
                  /\ crashed' = FALSE
                  /\ pc' = "returned"
             ELSE LET a == Analyse(pdu, Members)
                  IN  /\ locals' = a.h
                      /\ published' = a.published
                      /\ crashed' = a.crashed
                      /\ pc' = IF a.crashed THEN "returned" ELSE "test_rms"
    /\ UNCHANGED <<d_method, d_channel_freqs, d_ffts, d_windows,
                   d_fft_mag2_gains, d_rotate, d_corrected_burst,
                   size_of_inf>>

\* if (d_method == RMS) { shift = this->rms(...); }
TestRms ==
    /\ pc = "test_rms"
    /\ locals' = [locals EXCEPT
                     !.method = d_method,
                     !.shift_primary =
                         IF d_method = RMS
                         THEN PrimaryShift(d_method, d_method, locals.mags2,
                                  locals.freq_axis, locals.center_frequency,
                                  locals.sample_rate)
                         ELSE Zero]
    /\ pc' = IF d_method = RMS THEN "coerce_size" ELSE "test_half_power"
    /\ UNCHANGED <<d_method, d_channel_freqs, d_ffts, d_windows,
                   d_fft_mag2_gains, d_rotate, d_corrected_burst, msg,
                   published, crashed, size_of_inf>>

\* else if (d_method == HALF_POWER) { shift = this->half_power(mags2); }
TestHalfPower ==
    /\ pc = "test_half_power"
    /\ locals' = [locals EXCEPT
                     !.shift_primary =
                         PrimaryShift(locals.method, d_method, locals.mags2,
                             locals.freq_axis, locals.center_frequency,
                             locals.sample_rate),
                     !.index_ok =
                         locals.index_ok
                         /\ PrimaryInRange(locals.method, d_method,
                                           locals.mags2)]
    /\ pc' = "coerce_size"
    /\ UNCHANGED <<d_method, d_channel_freqs, d_ffts, d_windows,
                   d_fft_mag2_gains, d_rotate, d_corrected_burst, msg,
                   published, crashed, size_of_inf>>

\* coerce_frequency: if (d_channel_freqs.size() == 0) return 0.0;
CoerceSize ==
    /\ pc = "coerce_size"
    /\ IF Len(d_channel_freqs) = 0
       THEN /\ locals' = [locals EXCEPT !.freqs = <<>>,
                                        !.shift_coerce = Zero]
            /\ pc' = "correct"
       ELSE /\ locals' = locals
            /\ pc' = "coerce_search"
    /\ UNCHANGED <<d_method, d_channel_freqs, d_ffts, d_windows,
                   d_fft_mag2_gains, d_rotate, d_corrected_burst, msg,
                   published, crashed, size_of_inf>>

\* what d_channel_freqs[0] yields: the first channel, or, the list having
\* been emptied since its size was tested, whatever its storage holds
FirstChannelReads ==
    IF Len(d_channel_freqs) > 0 THEN {d_channel_freqs[1]}
    ELSE {R(c) : c \in ControlledFreqs}

\* coerce_frequency: the search for the closest channel and the return
CoerceSearch ==
    /\ pc = "coerce_search"
    /\ \E first \in FirstChannelReads :
          locals' = [locals EXCEPT
                        !.freqs = d_channel_freqs,
                        !.index_ok = locals.index_ok
                                     /\ Len(d_channel_freqs) > 0,
                        !.shift_coerce =
                            NearestFrom(first, d_channel_freqs,
                                RatAdd(locals.center_frequency,
                                       RatMul(locals.shift_primary,
                                              locals.sample_rate)),
                                locals.sample_rate)]
    /\ pc' = "correct"
    /\ UNCHANGED <<d_method, d_channel_freqs, d_ffts, d_windows,
                   d_fft_mag2_gains, d_rotate, d_corrected_burst, msg,
                   published, crashed, size_of_inf>>

\* from "correct the burst" to the publication on "out"
CorrectAndPublish ==
    /\ pc = "correct"
    /\ \E o \in Finish(msg, locals, published, d_rotate, d_corrected_burst,
                       d_fft_mag2_gains) :
          /\ locals' = o.h
          /\ published' = o.published
          /\ d_rotate' = o.rotator
          /\ d_corrected_burst' = o.buf
          /\ crashed' = o.crashed
    /\ pc' = "returned"
    /\ UNCHANGED <<d_method, d_channel_freqs, d_ffts, d_windows,
                   d_fft_mag2_gains, msg, size_of_inf>>

\* cf_estimate_impl::set_method(method), from the controller thread
set_method ==
    /\ ~crashed
    /\ \E method \in Methods : d_method' = method
    /\ UNCHANGED <<d_channel_freqs, d_ffts, d_windows, d_fft_mag2_gains,
                   d_rotate, d_corrected_burst, pc, msg, locals, published,
                   crashed, size_of_inf>>

\* cf_estimate_impl::set_freqs(channel_freqs), from the controller thread
set_freqs ==
    /\ ~crashed
    /\ \E channel_freqs \in ControlledLists :
          d_channel_freqs' = channel_freqs
    /\ UNCHANGED <<d_method, d_ffts, d_windows, d_fft_mag2_gains,
                   d_rotate, d_corrected_burst, pc, msg, locals, published,
                   crashed, size_of_inf>>

NextConc ==
    \/ Receive
    \/ TestRms
    \/ TestHalfPower
    \/ CoerceSize
    \/ CoerceSearch
    \/ CorrectAndPublish
    \/ NextMessage
    \/ set_method
    \/ set_freqs

SpecConc == InitConc /\ [][NextConc]_vars

(***************************************************************************)
(* Properties of one call of the handler                                   *)
(***************************************************************************)
\* the handler has been called
Called == msg # NoPdu

\* the PDU is one of those the handler is to drop
Malformed(pdu) ==
    \/ pdu.shape \in {"not_pair", "not_c32vector", "not_dict"}
    \/ "center_frequency" \notin DOMAIN pdu.metadata
    \/ "sample_rate" \notin DOMAIN pdu.metadata

\* the ports on which the latest call published, in order
PortsUsed == [i \in 1..Len(published) |-> published[i][1]]

\* the latest call got as far as the debug publication
Analysed == Called /\ Len(published) >= 1

\* the latest call published the corrected burst
Corrected == Called /\ Len(published) = 2

\* ... and used no index out of range on the way
CorrectedInRange == Corrected /\ locals.index_ok

OutMeta == published[2][2].metadata

\* C1: a PDU that is not a pair, whose data is not a c32vector, whose
\* metadata is not a dictionary or lacks center_frequency or sample_rate is
\* dropped: nothing is published on "debug" or "out", and the estimator is
\* alive and idle for the next PDU.
C1_MalformedPduIsDropped ==
    (Called /\ Malformed(msg)) =>
        /\ published = <<>>
        /\ locals.dropped
        /\ ~crashed
        /\ ENABLED NextMessage

\* a PDU without sample_rate was dropped by an estimator that had already
\* corrected a burst
C1_Witness ==
    /\ Called
    /\ msg.shape = "pair"
    /\ "center_frequency" \in DOMAIN msg.metadata
    /\ "sample_rate" \notin DOMAIN msg.metadata
    /\ locals.dropped
    /\ d_corrected_burst # <<>>

\* C2: every well-formed PDU with center_frequency and sample_rate, of any
\* burst length, is handled without an out-of-range index and publishes
\* exactly one record on "debug" and then exactly one on "out".
C2_EveryBurstIsHandled ==
    (Called /\ ~Malformed(msg)) =>
        /\ locals.index_ok
        /\ ~crashed
        /\ PortsUsed = <<"debug", "out">>

\* C3: the output metadata has the power and SNR keys exactly when the
\* input metadata has noise_density (stated for the calls that use no index
\* out of range).
C3_PowerKeysIffNoiseDensity ==
    CorrectedInRange =>
        LET given == "noise_density" \in DOMAIN msg.metadata
        IN  /\ ("pwr_db" \in DOMAIN OutMeta) <=> given
            /\ ("snr_db" \in DOMAIN OutMeta) <=> given

\* C4: for every burst length the FFT power chosen is
\* floor(log2(N / MIN_NFFTS)) clamped to [MIN_FFT_POWER, MAX_FFT_POWER], so
\* fftsize is a power of two in [32, 256], and nffts = floor(N / fftsize)
\* is at least 1 (stated for the lengths N >= MIN_NFFTS, whose FFT power
\* is not negative).
C4_FftSizeWithinBank ==
    (pc = "sized" /\ locals.sz.burst_size >= MIN_NFFTS) =>
        LET sz == locals.sz
        IN  /\ sz.fftpower \in MIN_FFT_POWER..MAX_FFT_POWER
            /\ sz.fftsize = Pow2(sz.fftpower)
            /\ sz.fftsize \in Pow2(MIN_FFT_POWER)..Pow2(MAX_FFT_POWER)
            /\ sz.nffts = sz.burst_size \div sz.fftsize
            /\ sz.nffts >= 1

\* C5: on a PSD whose bins are all 0, rms() returns offset 0 and rms_bw()
\* returns bandwidth 0 (no NaN).
C5_ZeroEnergyIsNeutral ==
    (Analysed /\ Len(locals.mags2) > 0 /\ RatSum(locals.mags2) = Zero) =>
        /\ locals.bandwidth = Sqrt(Zero)
        /\ rms(locals.mags2, locals.freq_axis, locals.center_frequency,
               locals.sample_rate) = Zero
        /\ locals.method = RMS => locals.shift_primary = Zero

\* the estimate that is coerced: center_frequency + offset_primary * rate
PrimaryEstimate ==
    RatAdd(locals.center_frequency,
           RatMul(locals.shift_primary, locals.sample_rate))

\* c is a channel of the list nearest to the estimate e: no channel is
\* strictly nearer
IsNearest(c, channel_freqs, e) ==
    /\ \E i \in 1..Len(channel_freqs) : channel_freqs[i] = c
    /\ \A i \in 1..Len(channel_freqs) :
          ~RatLt(RatAbs(RatSub(channel_freqs[i], e)), RatAbs(RatSub(c, e)))

C7_PrimaryOffsetInRange ==
    (Analysed /\ Len(locals.mags2) > 0) =>
        /\ RatLe(RatNeg(Half), locals.shift_primary)
        /\ RatLe(locals.shift_primary, Half)
        /\ HalfPowerIndex(locals.mags2).in_range
        /\ HalfPowerIndex(locals.mags2).idx < Len(locals.mags2)

\* C7, for the PSDs with positive energy: the primary offset of every
\* method lies in [-1/2, 1/2] and the half_power scan stops inside the PSD.
C7_PositiveEnergyInRange ==
    (Analysed /\ Len(locals.mags2) > 0 /\ RatSum(locals.mags2) # Zero) =>
        /\ RatLe(RatNeg(Half), locals.shift_primary)
        /\ RatLe(locals.shift_primary, Half)
        /\ HalfPowerIndex(locals.mags2).in_range
        /\ HalfPowerIndex(locals.mags2).idx < Len(locals.mags2)

\* C8: a burst is estimated entirely with the method and the channel list
\* in force when its handling started, whatever set_method and set_freqs
\* do meanwhile, and no element is read from a list that no longer has it.
C8_SettersTakeEffectAtNextBurst ==
    (Corrected /\ pc = "returned") =>
        LET primary == PrimaryShift(locals.start_method, locals.start_method,
                           locals.mags2, locals.freq_axis,
                           locals.center_frequency, locals.sample_rate)
        IN  /\ locals.index_ok
            /\ locals.shift_primary = primary
            /\ locals.shift_coerce =
                   coerce_frequency(locals.start_freqs,
                       RatAdd(locals.center_frequency,
                              RatMul(primary, locals.sample_rate)),
                       locals.sample_rate)

\* the members of a freshly constructed estimator with this configuration
FreshMembers ==
    [Members EXCEPT !.d_rotate = NoRotation, !.d_corrected_burst = <<>>]

\* C9: with the method and channel list unchanged, the records published
\* for a PDU depend on that PDU alone: whatever the history of this
\* estimator, they are the records a fresh estimator publishes for it.
C9_SamePduSameRecords ==
    Called =>
        \A o \in HandlerOutcomes(msg, FreshMembers) :
            published = o.published

\* C9, for the calls that use no index out of range: the records are those
\* a fresh estimator publishes for the PDU.
C9_InRangeCallsRepeat ==
    (Called /\ locals.index_ok) =>
        \A o \in HandlerOutcomes(msg, FreshMembers) :
            published = o.published

\* a second burst, longer than the first, was corrected
C9_InRangeWitness ==
    /\ Corrected
    /\ locals.index_ok
    /\ locals.shift # Zero
    /\ d_rotate.phase # Zero

\* C10: relative_frequency in the output metadata: an input value r # 0
\* becomes r + shift * sample_rate; an absent key stays absent and the
\* value 0 stays 0 (stated for the calls that use no index out of range).
C10_RelativeFrequency ==
    CorrectedInRange =>
        LET md == msg.metadata
            correction == RatMul(locals.shift, locals.sample_rate)
        IN  IF "relative_frequency" \in DOMAIN md
            THEN /\ "relative_frequency" \in DOMAIN OutMeta
                 /\ OutMeta["relative_frequency"] =
                        IF md["relative_frequency"] # Zero
                        THEN RatAdd(md["relative_frequency"], correction)
                        ELSE Zero
            ELSE "relative_frequency" \notin DOMAIN OutMeta

====
